---- MODULE Spec2Model ----
(***************************************************************************)
(* Model of fix_join.py: a one-shot patcher that reads a Kotlin source     *)
(* file in text mode, replaces every (non-greedy, DOTALL) match of         *)
(*   <start comment line>\n.*?<end comment line>                            *)
(* by a fixed block of new code, writes the result back to the same path   *)
(* and prints the difference of a marker substring count.                  *)
(*                                                                         *)
(* Texts are sequences of symbols.  The symbols stand for the pieces of    *)
(* text the script distinguishes:                                          *)
(*   "S"  the start comment line (without its newline)                     *)
(*   "E"  the end comment line                                             *)
(*   "M"  the marker 'val inviterServer = inviteSender.substringAfter'     *)
(*   "R"  the first comment line of the new code                           *)
(*   "LF" / "CR"  the newline characters                                   *)
(* None of the real literals overlaps itself or another one, so an         *)
(* occurrence of a literal is an occurrence of its symbol sequence.        *)
(***************************************************************************)
EXTENDS Integers, Sequences, FiniteSets, TLC

\* ------------------------------------------------------------------ bounds
MaxLen == 6        \* longest initial file, in symbols

\* ------------------------------------------------------------- characters
LF == "LF"
CR == "CR"

\* symbols the text of an initial file is made of
Alphabet == {"S", "E", "M", LF}

\* the literal part of the pattern before `.*?` (ends with \n)
StartAnchor == <<"S", LF>>

\* the literal part of the pattern after `.*?`
EndAnchor == <<"E">>

\* the substring counted by the diagnostic
Marker == <<"M">>

\* the replacement block: new comment line, the code holding the marker
\* once, and the end comment line as its last line (no trailing newline)
new_code == <<"R", LF, "M", LF, "E">>

\* line separators: os.linesep of the platforms the script runs on, and the
\* line ending conventions of the file it is given
Lineseps == {<<LF>>, <<CR, LF>>}

\* ------------------------------------------------------------ text helpers
\* literal a occurs in t at index i
HasAt(t, a, i) ==
    /\ i >= 1
    /\ i + Len(a) - 1 <= Len(t)
    /\ \A k \in 1..Len(a) : t[i + k - 1] = a[k]

\* all sequences over set s of length at most n
RECURSIVE SeqsUpTo(_, _)
SeqsUpTo(s, n) ==
    IF n = 0 THEN {<<>>}
    ELSE LET shorter == SeqsUpTo(s, n - 1)
         IN shorter \cup {Append(t, c) : t \in {u \in shorter : Len(u) = n - 1}, c \in s}

\* -------------------------------------------------------- text mode file I/O
\* reading in text mode (newline=None): \r\n and a lone \r become \n
RECURSIVE UniversalFrom(_, _)
UniversalFrom(f, i) ==
    IF i > Len(f) THEN <<>>
    ELSE IF f[i] = CR
         THEN IF i < Len(f) /\ f[i + 1] = LF
              THEN <<LF>> \o UniversalFrom(f, i + 2)
              ELSE <<LF>> \o UniversalFrom(f, i + 1)
         ELSE <<f[i]>> \o UniversalFrom(f, i + 1)

RawRead(f) == f

Universal(f) == UniversalFrom(f, 1)

\* writing in text mode (newline=None): every \n becomes os.linesep
RECURSIVE TranslateFrom(_, _, _)
TranslateFrom(t, sep, i) ==
    IF i > Len(t) THEN <<>>
    ELSE (IF t[i] = LF THEN sep ELSE <<t[i]>>) \o TranslateFrom(t, sep, i + 1)

Translate(t, sep) == TranslateFrom(t, sep, 1)

\* ------------------------------------------------------------ the regex
\* `.` under re.DOTALL matches every character, the newline included
DotNoDotall(c) == c # LF

DotMatches(c) == TRUE

\* `.*?` followed by the end literal, tried from index q: the lazy
\* quantifier tries the end literal first and consumes one more character
\* only when that fails.  Returns the index after the match, 0 for no match.
GreedyDot(t, q) ==
    LET js == {j \in q..Len(t) : HasAt(t, EndAnchor, j)}
    IN IF js = {} THEN 0
       ELSE (CHOOSE j \in js : \A k \in js : k <= j) + Len(EndAnchor)

RECURSIVE LazyDot(_, _)
LazyDot(t, q) ==
    IF HasAt(t, EndAnchor, q) THEN q + Len(EndAnchor)
    ELSE IF q <= Len(t) /\ DotMatches(t[q]) THEN LazyDot(t, q + 1)
    ELSE 0

\* the whole pattern tried at index p: index after the match, 0 for no match
MatchAt(t, p) ==
    IF HasAt(t, StartAnchor, p) THEN LazyDot(t, p + Len(StartAnchor)) ELSE 0

\* the rest of t from index p on
CopyFrom(t, p) == IF p > Len(t) THEN <<>> ELSE SubSeq(t, p, Len(t))

SubFirstOnly(t, p) ==
    LET ps == {i \in p..Len(t) : MatchAt(t, i) # 0}
    IN IF ps = {} THEN CopyFrom(t, p)
       ELSE LET i == CHOOSE i \in ps : \A k \in ps : i <= k
            IN SubSeq(t, p, i - 1) \o new_code \o CopyFrom(t, MatchAt(t, i))

\* re.sub scanning from index p: a match is replaced and the scan goes on
\* after it, an unmatched character is copied
RECURSIVE ReSubFrom(_, _)
ReSubFrom(t, p) ==
    IF p > Len(t) THEN <<>>
    ELSE LET e == MatchAt(t, p)
         IN IF e # 0 THEN new_code \o ReSubFrom(t, e)
            ELSE <<t[p]>> \o ReSubFrom(t, p + 1)

ReSub(t) == ReSubFrom(t, 1)

\* str.count: non-overlapping occurrences, scanning left to right
RECURSIVE StrCountFrom(_, _, _)
StrCountFrom(t, a, p) ==
    IF p + Len(a) - 1 > Len(t) THEN 0
    ELSE IF HasAt(t, a, p) THEN 1 + StrCountFrom(t, a, p + Len(a))
    ELSE StrCountFrom(t, a, p + 1)

StrCount(t, a) == StrCountFrom(t, a, 1)

\* the number printed by the last line of the script
DiagnosticSwapped(old, new) == StrCount(new, Marker) - StrCount(old, Marker)

Diagnostic(old, new) == StrCount(old, Marker) - StrCount(new, Marker)

\* --------------------------------------------------------------- state
VARIABLES
    file,         \* contents of RoomMembershipRoutes.kt on disk
    linesep,      \* os.linesep of the platform
    pc,           \* position in the script
    content,      \* the variable content
    new_content,  \* the variable new_content
    rOpen,        \* the read handle is open
    wOpen,        \* the write handle is open
    reads,        \* f.read() calls completed in this run
    writes,       \* f.write() calls completed in this run
    stdout,       \* numbers printed in this run
    outcome,      \* how the run ended
    rerun,        \* the current run is not the first one on this file
    orig          \* contents of the file when the current run started

vars == <<file, linesep, pc, content, new_content, rOpen, wOpen, reads, writes,
          stdout, outcome, rerun, orig>>

\* The file is any text of at most MaxLen symbols stored with LF or with CRLF
\* line endings; the platform's line separator is independent of it.
Init ==
    /\ \E t \in SeqsUpTo(Alphabet, MaxLen), sep \in Lineseps :
          file = Translate(t, sep)
    /\ linesep \in Lineseps
    /\ pc = "start"
    /\ content = <<>>
    /\ new_content = <<>>
    /\ rOpen = FALSE
    /\ wOpen = FALSE
    /\ reads = 0
    /\ writes = 0
    /\ stdout = <<>>
    /\ outcome = "running"
    /\ rerun = FALSE
    /\ orig = file

\* with open(path, 'r', encoding='utf-8') as f:
OpenRead ==
    /\ pc = "start"
    /\ rOpen' = TRUE
    /\ pc' = "ropen"
    /\ UNCHANGED <<file, linesep, content, new_content, wOpen, reads, writes,
                   stdout, outcome, rerun, orig>>

\* the open for reading raises (file missing, permission denied)
OpenReadFail ==
    /\ pc = "start"
    /\ pc' = "failed"
    /\ outcome' = "IOError"
    /\ UNCHANGED <<file, linesep, content, new_content, rOpen, wOpen, reads,
                   writes, stdout, rerun, orig>>

\* content = f.read()
ReadAll ==
    /\ pc = "ropen"
    /\ content' = Universal(file)
    /\ reads' = reads + 1
    /\ pc' = "rread"
    /\ UNCHANGED <<file, linesep, new_content, rOpen, wOpen, writes, stdout,
                   outcome, rerun, orig>>

\* leaving the with block without closing the handle
CloseReadLeak ==
    /\ pc = "rread"
    /\ pc' = "closed"
    /\ UNCHANGED <<file, linesep, content, new_content, rOpen, wOpen, reads,
                   writes, stdout, outcome, rerun, orig>>

\* end of the first with block: the read handle is closed
CloseRead ==
    /\ pc = "rread"
    /\ rOpen' = FALSE
    /\ pc' = "closed"
    /\ UNCHANGED <<file, linesep, content, new_content, wOpen, reads, writes,
                   stdout, outcome, rerun, orig>>

\* new_content = re.sub(pattern, new_code, content, flags=re.DOTALL)
Sub ==
    /\ pc = "closed"
    /\ new_content' = ReSub(content)
    /\ pc' = "computed"
    /\ UNCHANGED <<file, linesep, content, rOpen, wOpen, reads, writes, stdout,
                   outcome, rerun, orig>>

\* with open(path, 'w', encoding='utf-8') as f:   (mode 'w' truncates)
OpenWrite ==
    /\ pc = "computed"
    /\ file' = <<>>
    /\ wOpen' = TRUE
    /\ pc' = "wopen"
    /\ UNCHANGED <<linesep, content, new_content, rOpen, reads, writes, stdout,
                   outcome, rerun, orig>>

\* the open for writing raises (read-only file): nothing is truncated
OpenWriteFail ==
    /\ pc = "computed"
    /\ pc' = "failed"
    /\ outcome' = "IOError"
    /\ UNCHANGED <<file, linesep, content, new_content, rOpen, wOpen, reads,
                   writes, stdout, rerun, orig>>

\* f.write(new_content)
Write ==
    /\ pc = "wopen"
    /\ file' = Translate(new_content, linesep)
    /\ writes' = writes + 1
    /\ pc' = "wrote"
    /\ UNCHANGED <<linesep, content, new_content, rOpen, wOpen, reads, stdout,
                   outcome, rerun, orig>>

\* the write raises partway (disk full, device error): a proper prefix of the
\* data is on disk, the with block closes the handle, the exception ends the
\* script
WriteFail ==
    /\ pc = "wopen"
    /\ LET data == Translate(new_content, linesep)
       IN \E k \in 0..(Len(data) - 1) : file' = SubSeq(data, 1, k)
    /\ wOpen' = FALSE
    /\ pc' = "failed"
    /\ outcome' = "IOError"
    /\ UNCHANGED <<linesep, content, new_content, rOpen, reads, writes, stdout,
                   rerun, orig>>

\* end of the second with block: the write handle is closed
CloseWrite ==
    /\ pc = "wrote"
    /\ wOpen' = FALSE
    /\ pc' = "wclosed"
    /\ UNCHANGED <<file, linesep, content, new_content, rOpen, reads, writes,
                   stdout, outcome, rerun, orig>>

\* print('Replacement complete - removed', <count difference>, '...')
PrintDiagnostic ==
    /\ pc = "wclosed"
    /\ stdout' = Append(stdout, Diagnostic(content, new_content))
    /\ outcome' = "success"
    /\ pc' = "done"
    /\ UNCHANGED <<file, linesep, content, new_content, rOpen, wOpen, reads,
                   writes, rerun, orig>>

\* the script is started again on the file the finished run left
Rerun ==
    /\ pc = "done"
    /\ rerun' = TRUE
    /\ orig' = file
    /\ pc' = "start"
    /\ content' = <<>>
    /\ new_content' = <<>>
    /\ reads' = 0
    /\ writes' = 0
    /\ stdout' = <<>>
    /\ outcome' = "running"
    /\ UNCHANGED <<file, linesep, rOpen, wOpen>>

Next ==
    \/ OpenRead
    \/ OpenReadFail
    \/ ReadAll
    \/ CloseRead
    \/ Sub
    \/ OpenWrite
    \/ OpenWriteFail
    \/ Write
    \/ WriteFail
    \/ CloseWrite
    \/ PrintDiagnostic
    \/ Rerun

Spec == Init /\ [][Next]_vars

TypeOK ==
    /\ pc \in {"start", "ropen", "rread", "closed", "computed", "wopen",
               "wrote", "wclosed", "done", "failed"}
    /\ linesep \in Lineseps
    /\ rOpen \in BOOLEAN
    /\ wOpen \in BOOLEAN
    /\ reads \in 0..1
    /\ writes \in 0..1
    /\ Len(stdout) <= 1
    /\ outcome \in {"running", "success", "IOError"}
    /\ rerun \in BOOLEAN

\* ------------------------------------------------ what the patch should be
\* The spans of a text stated without the regex engine: indices of the
\* occurrences of a literal, the leftmost start anchor that has an end anchor
\* after it, and the first end anchor after that start anchor.
Occ(t, a) == {i \in 1..Len(t) : HasAt(t, a, i)}

MinOf(s) == CHOOSE i \in s : \A k \in s : i <= k

EndsAfter(t, i) == {j \in Occ(t, EndAnchor) : j >= i + Len(StartAnchor)}

SpanStarts(t, p) == {i \in Occ(t, StartAnchor) : i >= p /\ EndsAfter(t, i) # {}}

SpanEnd(t, i) == MinOf(EndsAfter(t, i)) + Len(EndAnchor) - 1

RECURSIVE SpansFrom(_, _)
SpansFrom(t, p) ==
    IF SpanStarts(t, p) = {} THEN <<>>
    ELSE LET i == MinOf(SpanStarts(t, p))
         IN <<[from |-> i, to |-> SpanEnd(t, i)]>> \o SpansFrom(t, SpanEnd(t, i) + 1)

Spans(t) == SpansFrom(t, 1)

\* t from index p on, with the spans sp[k], sp[k+1], ... replaced
RECURSIVE Patched(_, _, _, _)
Patched(t, sp, k, p) ==
    IF k > Len(sp) THEN CopyFrom(t, p)
    ELSE SubSeq(t, p, sp[k].from - 1) \o new_code \o Patched(t, sp, k + 1, sp[k].to + 1)

\* new_content has just been assigned, or the run has finished with it
Computed == pc \in {"computed", "done"}

\* ------------------------------------------------------------------ claims

\* C1 (Containment): when the anchor pair matches exactly once in the text
\* read, spanning content[from..to], the patched text is the text before the
\* span, the replacement, and the text after the span, both unchanged.
C1_Containment ==
    (Computed /\ Len(Spans(content)) = 1) =>
        LET sp == Spans(content)[1]
        IN /\ HasAt(content, StartAnchor, sp.from)
           /\ HasAt(content, EndAnchor, sp.to - Len(EndAnchor) + 1)
           /\ new_content = SubSeq(content, 1, sp.from - 1) \o new_code
                            \o SubSeq(content, sp.to + 1, Len(content))

\* a finished run whose single span has text before it and after it
C1_Witness ==
    /\ pc = "done"
    /\ Len(Spans(content)) = 1
    /\ Spans(content)[1].from > 1
    /\ Spans(content)[1].to < Len(content)

\* C2 (No-op safety), the claim as stated: a run on a non-empty text without
\* a span ends in NoMatchError, writes nothing and leaves the file as it was.
C2_NoMatchFails ==
    (pc \in {"done", "failed"} /\ reads = 1 /\ content # <<>>
                                /\ Spans(content) = <<>>) =>
        (outcome = "NoMatchError" /\ writes = 0 /\ file = orig)

\* C3 (Ambiguity detection), the claim as stated: a run on a text with two or
\* more spans ends in AmbiguousMatchError or reports the number of spans.
C3_AmbiguityDetected ==
    (pc = "done" /\ Len(Spans(content)) >= 2) =>
        (outcome = "AmbiguousMatchError" \/ stdout = <<Len(Spans(content))>>)

\* C4 (Shortest span): the first replaced span begins at the first occurrence
\* of the start anchor and ends with the first end anchor after it, so the
\* output begins with the text before it and the replacement, and every end
\* anchor occurring after that span is still in the rest of the output.
C4_ShortestSpan ==
    (Computed /\ Occ(content, StartAnchor) # {}
              /\ EndsAfter(content, MinOf(Occ(content, StartAnchor))) # {}) =>
        LET i == MinOf(Occ(content, StartAnchor))
            j == MinOf(EndsAfter(content, i))
            n == i - 1 + Len(new_code)
        IN /\ Len(new_content) >= n
           /\ SubSeq(new_content, 1, n) = SubSeq(content, 1, i - 1) \o new_code
           /\ Cardinality(Occ(SubSeq(new_content, n + 1, Len(new_content)), EndAnchor))
                = Cardinality({k \in Occ(content, EndAnchor) : k > j})

\* a finished run where the first start anchor has two end anchors after it
C4_Witness ==
    /\ pc = "done"
    /\ Occ(content, StartAnchor) # {}
    /\ Cardinality(EndsAfter(content, MinOf(Occ(content, StartAnchor)))) >= 2

\* C5 (Diagnostic accuracy): the number printed is the number of marker
\* occurrences in the text read minus the number in the text written, which
\* are also the numbers of occurrences in the file before and after the run.
C5_DiagnosticAccurate ==
    pc = "done" =>
        /\ stdout = <<Cardinality(Occ(content, Marker))
                      - Cardinality(Occ(new_content, Marker))>>
        /\ stdout = <<Cardinality(Occ(orig, Marker)) - Cardinality(Occ(file, Marker))>>

\* a finished run that printed a negative number
C5_Witness ==
    /\ pc = "done"
    /\ Len(stdout) = 1
    /\ stdout[1] < 0
    /\ Occ(content, Marker) # {}

\* C6 (Failure leaves the file intact), the claim as stated: a run that ended
\* in a failure leaves the file with the contents it had before the run.
C6_FailureLeavesFileIntact ==
    pc = "failed" => file = orig

\* C8 (Ordering of file operations): the two handles are never open together,
\* the file is read once and written at most once, the new text is computed
\* only after the read handle is closed, and the file is opened for writing,
\* truncated or written only after the new text is computed.
C8_FileOpsOrdered ==
    /\ ~(rOpen /\ wOpen)
    /\ reads <= 1
    /\ writes <= 1
    /\ (pc \in {"closed", "computed", "wopen", "wrote", "wclosed", "done"}
          => reads = 1 /\ ~rOpen)
    /\ ((wOpen \/ writes > 0 \/ file # orig)
          => /\ reads = 1
             /\ ~rOpen
             /\ pc \notin {"start", "ropen", "rread", "closed"})
    /\ (wOpen => new_content = ReSub(content))

\* a finished run that read the file once and wrote a changed file once
C8_Witness ==
    /\ pc = "done"
    /\ reads = 1
    /\ writes = 1
    /\ file # orig

\* C9 (Second run changes nothing): a run on the file a finished run left
\* ends with the file as it found it and prints 0; the patched text is a
\* fixed point of the substitution.
C9_SecondRunNoChange ==
    /\ (Computed => ReSub(new_content) = new_content)
    /\ (rerun /\ pc = "done") => (file = orig /\ stdout = <<0>>)

\* a later run finished on a file in which the first run replaced a span and
\* left a start anchor behind
C9_Witness ==
    /\ rerun
    /\ pc = "done"
    /\ Occ(content, <<"R">>) # {}
    /\ Occ(content, StartAnchor) # {}

\* C10 (Every span is replaced): the patched text is the text read with each
\* of its n spans replaced and the text before, between and after them
\* unchanged; with n = 0 the run still writes the unchanged text and ends
\* with the success message.
C10_AllSpansReplaced ==
    /\ Computed => new_content = Patched(content, Spans(content), 1, 1)
    /\ (pc = "done" /\ Spans(content) = <<>>) =>
          /\ new_content = content
          /\ writes = 1
          /\ file = Translate(content, linesep)
          /\ outcome = "success"
          /\ Len(stdout) = 1

\* a finished run on a text with two spans, both replaced in the file
C10_Witness ==
    /\ pc = "done"
    /\ Len(Spans(content)) >= 2
    /\ Cardinality(Occ(file, <<"R">>)) >= 2
====
